---- MODULE Spec2Model ----
(***************************************************************************)
(* A model of the context collector of Spider2/trv: exclusion matching,    *)
(* the file tree, the content collection, the DuckDB serializer, the row   *)
(* formatter, the token estimator and the token report of context.py.      *)
(*                                                                         *)
(* Text is a sequence of one-character strings, so that upper-casing,      *)
(* globbing, suffix extraction and batching act on characters as the       *)
(* Python code does.                                                       *)
(***************************************************************************)
EXTENDS Integers, Sequences, FiniteSets, TLC

VARIABLES
    \* where the process stands: "call" before the function under study has
    \* run, "done" after it returned (other values are named where used)
    pc,
    \* is_excluded(path, exclude_patterns) and its return value
    path, exclude_patterns, excluded,
    \* a table's PRAGMA table_info rows, one row of the table, and the line
    \* format_db_row makes of it
    columns_info, row, formatted,
    \* whether GemmaTokenizerFast.from_pretrained can load the tokenizer,
    \* the module global _tokenizer, and estimate_gemini_tokens' arguments,
    \* its local list of batches and its return value
    tokenizer_available, _tokenizer, text, batch_size, batches, total_tokens,
    \* process_database_file's arguments, the database file behind db_path,
    \* the returned text, and the connection: "none" while never opened,
    \* then "open", then "closed", with the number of close() calls
    db_path, exclude_table_patterns, db, db_text, conn, closes,
    \* main: the file system, args.root_dir, args.exclude, args.output_file,
    \* the lines of the file tree, the two results of
    \* collect_and_separate_contents, the rows of the token report and what
    \* was written to the output file
    disk, root_dir, exclude, output_file, tree_lines, text_contents_by_type,
    db_contents, token_entries, written,
    \* the batch drivers: which script runs, what examples_dir holds in
    \* os.listdir order, the position of the loop over it, the lists and
    \* dicts main fills, what process_examples prints and the two CSV files
    \* tokens_by_task_report writes
    script, examples_dir, entry_index, results, file_type_results,
    all_file_types, stdout, tokens_summary, tokens_by_filetype

exclVars == <<path, exclude_patterns, excluded>>
rowVars == <<columns_info, row, formatted>>
tokVars == <<tokenizer_available, _tokenizer, text, batch_size, batches,
             total_tokens>>

dbVars == <<db_path, exclude_table_patterns, db, db_text, conn, closes>>

mainVars == <<disk, root_dir, exclude, output_file, tree_lines,
              text_contents_by_type, db_contents, token_entries, written>>

batchVars == <<script, examples_dir, entry_index, results, file_type_results,
               all_file_types, stdout, tokens_summary, tokens_by_filetype>>

vars == <<pc, exclVars, rowVars, tokVars, dbVars, mainVars, batchVars>>

----------------------------------------------------------------------------
(* Text helpers                                                            *)

RECURSIVE Concat(_)
\* "".join(parts): the parts one after another.
Concat(parts) ==
    IF parts = <<>> THEN <<>> ELSE Head(parts) \o Concat(Tail(parts))

RECURSIVE Join(_, _)
\* sep.join(parts)
Join(sep, parts) ==
    IF parts = <<>> THEN <<>>
    ELSE IF Len(parts) = 1 THEN parts[1]
    ELSE parts[1] \o sep \o Join(sep, Tail(parts))

\* s.endswith(suffix)
EndsWith(s, suffix) ==
    /\ Len(s) >= Len(suffix)
    /\ SubSeq(s, Len(s) - Len(suffix) + 1, Len(s)) = suffix

\* s.startswith(prefix)
StartsWith(s, prefix) ==
    /\ Len(s) >= Len(prefix)
    /\ SubSeq(s, 1, Len(prefix)) = prefix

\* The positions of character c in s.
Positions(s, c) == {i \in 1..Len(s) : s[i] = c}

\* The largest element of a non-empty set of integers.
Max(S) == CHOOSE m \in S : \A n \in S : n <= m

LowerChars ==
    <<"a","b","c","d","e","f","g","h","i","j","k","l","m",
      "n","o","p","q","r","s","t","u","v","w","x","y","z">>

UpperChars ==
    <<"A","B","C","D","E","F","G","H","I","J","K","L","M",
      "N","O","P","Q","R","S","T","U","V","W","X","Y","Z">>

\* str.upper() of one character.
UpperChar(c) ==
    IF \E i \in 1..Len(LowerChars) : LowerChars[i] = c
    THEN UpperChars[CHOOSE i \in 1..Len(LowerChars) : LowerChars[i] = c]
    ELSE c

\* str.upper()
Upper(s) == [i \in 1..Len(s) |-> UpperChar(s[i])]

\* str.lower() of one character.
LowerChar(c) ==
    IF \E i \in 1..Len(UpperChars) : UpperChars[i] = c
    THEN LowerChars[CHOOSE i \in 1..Len(UpperChars) : UpperChars[i] = c]
    ELSE c

\* str.lower()
Lower(s) == [i \in 1..Len(s) |-> LowerChar(s[i])]

\* Every list of at most n elements of S.
SeqsUpTo(S, n) == UNION {[1..k -> S] : k \in 0..n}

\* The first position at which sep occurs in s (0: nowhere).
FindFirst(s, sep) ==
    LET at == {i \in 1..(Len(s) - Len(sep) + 1) :
                  SubSeq(s, i, i + Len(sep) - 1) = sep}
    IN IF at = {} THEN 0 ELSE CHOOSE i \in at : \A j \in at : i <= j

RECURSIVE SplitOn(_, _)
\* s.split(sep)
SplitOn(s, sep) ==
    LET i == FindFirst(s, sep)
    IN IF i = 0 THEN <<s>>
       ELSE <<SubSeq(s, 1, i - 1)>> \o SplitOn(SubSeq(s, i + Len(sep), Len(s)), sep)

----------------------------------------------------------------------------
(* ExclusionMatcher: context.py is_excluded                                *)

\* os.path.basename(p): what follows the last "/" (all of p without one).
Basename(p) ==
    IF Positions(p, "/") = {} THEN p
    ELSE SubSeq(p, Max(Positions(p, "/")) + 1, Len(p))

RECURSIVE Fnmatch(_, _)
\* fnmatch.fnmatch(name, pat) on POSIX (normcase is the identity): the
\* pattern is translated to a regular expression matched against the whole
\* name: "*" is ".*", "?" is ".", any other character is itself.  Patterns
\* are drawn without "[", so the character-class branch never runs.
Fnmatch(name, pat) ==
    IF pat = <<>> THEN name = <<>>
    ELSE IF Head(pat) = "*"
         THEN \/ Fnmatch(name, Tail(pat))
              \/ (name # <<>> /\ Fnmatch(Tail(name), pat))
    ELSE IF Head(pat) = "?"
         THEN name # <<>> /\ Fnmatch(Tail(name), Tail(pat))
    ELSE /\ name # <<>>
         /\ Head(name) = Head(pat)
         /\ Fnmatch(Tail(name), Tail(pat))

\* A plausible slip: only the full path is tested, never the basename.
RECURSIVE is_excluded_FullPathOnly(_, _)
is_excluded_FullPathOnly(p, patterns) ==
    IF patterns = <<>> THEN FALSE
    ELSE IF Fnmatch(p, Head(patterns)) THEN TRUE
    ELSE is_excluded_FullPathOnly(p, Tail(patterns))

RECURSIVE is_excluded(_, _)
\* The loop of is_excluded: the first pattern matching the path or its
\* basename returns True; running out of patterns returns False.
is_excluded(p, patterns) ==
    IF patterns = <<>> THEN FALSE
    ELSE IF Fnmatch(p, Head(patterns)) \/ Fnmatch(Basename(p), Head(patterns))
         THEN TRUE
    ELSE is_excluded(p, Tail(patterns))

----------------------------------------------------------------------------
(* ValueFormatter and row rendering: format_value, format_db_row,          *)
(* get_db_primary_key_info, get_db_columns_info                            *)

\* Database values by their Python class.  DuckDB hands back None, int and
\* str; a value whose class is named List carries its items.
None == [class |-> "NoneType"]
IntVal(n) == [class |-> "int", v |-> n]
StrVal(s) == [class |-> "str", v |-> s]
ListVal(items) == [class |-> "List", items |-> items]

Digits == <<"0","1","2","3","4","5","6","7","8","9">>

RECURSIVE IntToStr(_)
\* str(n) of a natural number: its decimal digits.
IntToStr(n) ==
    IF n < 10 THEN <<Digits[n + 1]>>
    ELSE IntToStr(n \div 10) \o <<Digits[(n % 10) + 1]>>

RECURSIVE format_value(_)
\* format_value: None is the empty string, a List is "[" + its formatted
\* items joined by ", " + "]", anything else is str(value).
format_value(value) ==
    IF value.class = "NoneType" THEN <<>>
    ELSE IF value.class = "List"
         THEN <<"[">>
              \o Join(<<",", " ">>,
                      [i \in 1..Len(value.items) |-> format_value(value.items[i])])
              \o <<"]">>
    ELSE IF value.class = "int" THEN IntToStr(value.v)
    ELSE value.v

RECURSIVE get_db_primary_key_info(_)
\* get_db_primary_key_info: the (name, cid) of the first column of PRAGMA
\* table_info whose pk flag (col[5]) is set, else ("ID", 0).
get_db_primary_key_info(info) ==
    IF info = <<>> THEN [pk_name |-> <<"I","D">>, pk_index |-> 0]
    ELSE IF Head(info).pk
         THEN [pk_name |-> Head(info).name, pk_index |-> Head(info).cid]
    ELSE get_db_primary_key_info(Tail(info))

\* get_db_columns_info: the column names, and "name (type)" joined by ", ".
get_db_columns_info(info) ==
    [names |-> [i \in 1..Len(info) |-> info[i].name],
     info_str |-> Join(<<",", " ">>,
                       [i \in 1..Len(info) |->
                           info[i].name \o <<" ", "(">> \o info[i].type \o <<")">>])]

\* [x for i, x in enumerate(s) if i != k]: s without its element at the
\* 0-based position k (s itself when it has no such position).
SkipIndex(s, k) ==
    IF k < 0 \/ k >= Len(s) THEN s
    ELSE SubSeq(s, 1, k) \o SubSeq(s, k + 2, Len(s))

\* A plausible slip: the anchor column is not left out of the middle.
format_db_row_KeepsAnchor(r, column_names, pk_name, pk_index) ==
    IF r = <<>> \/ column_names = <<>> THEN <<>>
    ELSE
      LET pk_value == format_value(IF Len(r) > pk_index THEN r[pk_index + 1]
                                   ELSE StrVal(<<"N","/","A">>))
          pk_tag == Upper(pk_name)
          start_part == pk_tag \o <<":", " ">> \o pk_value
          end_part == <<"E","N","D"," ">> \o pk_tag \o <<":", " ">> \o pk_value
          content_parts ==
              [i \in 1..Len(column_names) |->
                  Upper(column_names[i]) \o <<":", " ">> \o format_value(r[i])]
      IN Join(<<" ", "|", " ">>, <<start_part>> \o content_parts \o <<end_part>>)

\* format_db_row; pk_index is 0-based as in Python, sequences are 1-based.
format_db_row(r, column_names, pk_name, pk_index) ==
    IF r = <<>> \/ column_names = <<>> THEN <<>>
    ELSE
      LET pk_value == format_value(IF Len(r) > pk_index THEN r[pk_index + 1]
                                   ELSE StrVal(<<"N","/","A">>))
          pk_tag == Upper(pk_name)
          start_part == pk_tag \o <<":", " ">> \o pk_value
          end_part == <<"E","N","D"," ">> \o pk_tag \o <<":", " ">> \o pk_value
          part(i) == Upper(column_names[i]) \o <<":", " ">>
                     \o (IF r[i] # None THEN format_value(r[i]) ELSE <<>>)
          all_parts == [i \in 1..Len(column_names) |-> part(i)]
          content_parts == SkipIndex(all_parts, pk_index)
      IN Join(<<" ", "|", " ">>, <<start_part>> \o content_parts \o <<end_part>>)

----------------------------------------------------------------------------
(* DatabaseSerializer: process_database_file                               *)

\* A database file is what DuckDB finds in it: fail is "connect" when
\* duckdb.connect raises, "tables" when SHOW TABLES raises, else "none";
\* each table has a name, its PRAGMA table_info, its rows, and the query on
\* it that raises: "columns" (get_db_columns_info), "pk"
\* (get_db_primary_key_info), "select" (SELECT *), or "none".

NL == <<"\n">>

DatabaseTag(rel) == <<"[","D","A","T","A","B","A","S","E"," ">> \o rel \o <<"]">>

EndDatabaseTag(rel) ==
    <<"[","E","N","D"," ","D","A","T","A","B","A","S","E"," ">> \o rel \o <<"]">>

TableTag(name) == <<"[","T","A","B","L","E"," ">> \o name \o <<"]">>

EndTableTag(name) ==
    <<"[","E","N","D"," ","T","A","B","L","E"," ">> \o name \o <<"]">>

ColumnsLine(info_str) ==
    <<"C","O","L","U","M","N","S",":"," ">> \o info_str

\* "INFO: ..." of line 174 (the message is cut to its first word).
InfoLine == <<"I","N","F","O",":"," ","n","o"," ","t","a","b","l","e","s">>

\* "ERROR: ... {e}" of line 190 (the message is cut to the error's name).
ErrorLine(e) == <<"E","R","R","O","R",":"," ">> \o e

\* str(e) of the duckdb.Error a failing step raises.
ErrorText(step) ==
    CASE step = "connect" -> <<"I","O">>
      [] step = "tables" -> <<"C","a","t">>
      [] OTHER -> <<"I","n","v">>

\* The body of the for loop (lines 177-187) for one table that is not
\* excluded: the lines appended, and whether a query raised.
TableLines(t) ==
    LET cols == get_db_columns_info(t.info)
        pk == get_db_primary_key_info(t.info)
        open == <<TableTag(t.name)>>
        header == open \o <<ColumnsLine(cols.info_str)>>
    IN IF t.fail = "columns" THEN [lines |-> open, raised |-> TRUE]
       ELSE IF t.fail \in {"pk", "select"}
            THEN [lines |-> header, raised |-> TRUE]
       ELSE [lines |-> header
                       \o [i \in 1..Len(t.rows) |->
                              format_db_row(t.rows[i], cols.names,
                                            pk.pk_name, pk.pk_index)]
                       \o <<EndTableTag(t.name)>>,
             raised |-> FALSE]

\* A plausible slip: each table is read in a try of its own, so that a
\* failing table does not stop the loop.
RECURSIVE ForTables_PerTableTry(_, _)
ForTables_PerTableTry(tables, patterns) ==
    IF tables = <<>> THEN [lines |-> <<>>, raised |-> FALSE]
    ELSE IF is_excluded(Head(tables).name, patterns)
         THEN ForTables_PerTableTry(Tail(tables), patterns)
    ELSE LET one == TableLines(Head(tables))
             rest == ForTables_PerTableTry(Tail(tables), patterns)
         IN [lines |-> one.lines \o rest.lines,
             raised |-> one.raised \/ rest.raised]

RECURSIVE ForTables(_, _)
\* The for loop of lines 176-187, inside the one try of line 169: the
\* first query that raises ends the loop.
ForTables(tables, patterns) ==
    IF tables = <<>> THEN [lines |-> <<>>, raised |-> FALSE]
    ELSE IF is_excluded(Head(tables).name, patterns)
         THEN ForTables(Tail(tables), patterns)
    ELSE LET one == TableLines(Head(tables))
         IN IF one.raised THEN one
            ELSE LET rest == ForTables(Tail(tables), patterns)
                 IN [lines |-> one.lines \o rest.lines, raised |-> rest.raised]

\* The step whose query raised first: of the database, or of the first
\* failing table the loop reaches.
RECURSIVE RaisedStep(_, _)
RaisedStep(tables, patterns) ==
    IF tables = <<>> THEN "none"
    ELSE IF is_excluded(Head(tables).name, patterns)
            \/ Head(tables).fail = "none"
         THEN RaisedStep(Tail(tables), patterns)
    ELSE Head(tables).fail

\* A plausible slip: the except branch appends nothing.
process_database_file_SilentExcept(p, d, patterns) ==
    LET head == <<DatabaseTag(p)>>
        foot == <<EndDatabaseTag(p) \o NL>>
        loop == ForTables(d.tables, patterns)
    IN IF d.fail = "connect"
       THEN [text |-> Join(NL, head \o foot), conn |-> "none", closes |-> 0]
       ELSE IF d.fail = "tables"
       THEN [text |-> Join(NL, head \o foot), conn |-> "open", closes |-> 0]
       ELSE LET body == (IF d.tables = <<>> THEN <<InfoLine>> ELSE <<>>)
                        \o loop.lines
            IN IF loop.raised
               THEN [text |-> Join(NL, head \o body \o foot),
                     conn |-> "open", closes |-> 0]
               ELSE [text |-> Join(NL, head \o body \o foot),
                     conn |-> "closed", closes |-> 1]

\* process_database_file(db_path, exclude_table_patterns) on the database
\* d: the returned text, and what became of the connection.  relpath is
\* taken of a path that is already relative to the working directory.
\* conn.close() (line 188) is the last statement of the try: an exception
\* before it jumps to the except branch, which only appends the ERROR line.
process_database_file(p, d, patterns) ==
    LET head == <<DatabaseTag(p)>>
        foot == <<EndDatabaseTag(p) \o NL>>
        loop == ForTables(d.tables, patterns)
    IN IF d.fail = "connect"
       THEN [text |-> Join(NL, head \o <<ErrorLine(ErrorText("connect"))>> \o foot),
             conn |-> "none", closes |-> 0]
       ELSE IF d.fail = "tables"
       THEN [text |-> Join(NL, head \o <<ErrorLine(ErrorText("tables"))>> \o foot),
             conn |-> "open", closes |-> 0]
       ELSE LET body == (IF d.tables = <<>> THEN <<InfoLine>> ELSE <<>>)
                        \o loop.lines
            IN IF loop.raised
               THEN [text |-> Join(NL, head \o body
                                       \o <<ErrorLine(ErrorText(
                                              RaisedStep(d.tables, patterns)))>>
                                       \o foot),
                     conn |-> "open", closes |-> 0]
               ELSE [text |-> Join(NL, head \o body \o foot),
                     conn |-> "closed", closes |-> 1]

----------------------------------------------------------------------------
(* The file system, BinaryDetector, FileTreeBuilder and ContentCollector:  *)
(* is_binary, generate_file_tree, collect_and_separate_contents            *)

\* A file system maps the path of each entry to what is there: a directory
\* ([kind |-> "dir"]), or a file with its bytes and, for a DuckDB file, the
\* database in it.

\* The zero byte.
NUL == "NUL"

\* The characters of names in code point order, for sorted().
CharOrder ==
    <<NUL, " ", "(", ")", ".", "/", "0","1","2","3","4","5","6","7","8","9">>
    \o UpperChars \o <<"[", "]", "_">> \o LowerChars

Ord(c) == CHOOSE i \in 1..Len(CharOrder) : CharOrder[i] = c

RECURSIVE StrLess(_, _)
\* a < b for Python strings.
StrLess(a, b) ==
    IF b = <<>> THEN FALSE
    ELSE IF a = <<>> THEN TRUE
    ELSE IF Head(a) = Head(b) THEN StrLess(Tail(a), Tail(b))
    ELSE Ord(Head(a)) < Ord(Head(b))

RECURSIVE Sorted(_)
\* sorted(S) of a set of strings.
Sorted(S) ==
    IF S = {} THEN <<>>
    ELSE LET least == CHOOSE x \in S : \A y \in S \ {x} : StrLess(x, y)
         IN <<least>> \o Sorted(S \ {least})

\* os.path.join(a, b) of a directory path and a name.
PathJoin(a, b) == a \o <<"/">> \o b

\* os.path.dirname(p)
Dirname(p) ==
    IF Positions(p, "/") = {} THEN <<>>
    ELSE SubSeq(p, 1, Max(Positions(p, "/")) - 1)

\* os.path.relpath(p, start) of a path p below start.
Relpath(p, start) == SubSeq(p, Len(start) + 2, Len(p))

\* os.listdir(dir): the names of the entries of dir.
Listdir(fs, dir) == {Basename(q) : q \in {x \in DOMAIN fs : Dirname(x) = dir}}

\* os.path.isdir(p)
IsDir(fs, p) == p \in DOMAIN fs /\ fs[p].kind = "dir"

\* is_binary reads at most this many bytes.
BinaryPrefix == 1024

\* is_binary(filepath): a zero byte among the first 1024 bytes.  The files
\* of the model can all be opened.
is_binary(fs, p) ==
    \E i \in 1..Len(fs[p].content) : i <= BinaryPrefix /\ fs[p].content[i] = NUL

\* The connectors and indentations of the tree (lines 74 and 79), their
\* box-drawing characters written in ASCII.
ConnectorMid == <<"|","-","-"," ">>
ConnectorLast == <<"+","-","-"," ">>
ExtensionMid == <<"|"," "," "," ">>
ExtensionLast == <<" "," "," "," ">>

\* Line 69: the entries of dir that are not excluded, sorted.
TreeEntries(fs, dir, patterns) ==
    Sorted({e \in Listdir(fs, dir) : ~is_excluded(PathJoin(dir, e), patterns)})

RECURSIVE generate_file_tree(_, _, _, _)
RECURSIVE TreeLoop(_, _, _, _, _, _)

\* The loop of lines 73-80 from the i-th entry on.
TreeLoop(fs, dir, patterns, prefix, entries, i) ==
    IF i > Len(entries) THEN <<>>
    ELSE LET last == i = Len(entries)
             line == prefix \o (IF last THEN ConnectorLast ELSE ConnectorMid)
                     \o entries[i]
             full_path == PathJoin(dir, entries[i])
             below == IF IsDir(fs, full_path)
                      THEN generate_file_tree(fs, full_path, patterns,
                               prefix \o (IF last THEN ExtensionLast ELSE ExtensionMid))
                      ELSE <<>>
         IN <<line>> \o below \o TreeLoop(fs, dir, patterns, prefix, entries, i + 1)

\* generate_file_tree(start_path, exclude_patterns, prefix); a start_path
\* that does not exist gives no lines.
generate_file_tree(fs, start_path, patterns, prefix) ==
    IF ~IsDir(fs, start_path) THEN <<>>
    ELSE TreeLoop(fs, start_path, patterns, prefix,
                  TreeEntries(fs, start_path, patterns), 1)

\* os.path.splitext(filename)[1]: from the last dot on, when a character
\* other than a dot comes before it; else the empty string.
SplitextExt(name) ==
    LET dots == Positions(name, ".")
    IN IF dots = {} THEN <<>>
       ELSE IF \E i \in 1..(Max(dots) - 1) : name[i] # "."
            THEN SubSeq(name, Max(dots), Len(name))
       ELSE <<>>

NoExtension == <<"n","o","_","e","x","t","e","n","s","i","o","n">>

\* A plausible slip: the extension is lower-cased before it keys the dict.
FileType_Lower(name) ==
    LET ext == SplitextExt(name)
    IN IF ext # <<>> THEN Lower(Tail(ext)) ELSE NoExtension

\* Lines 219-220: ext[1:] if ext else "no_extension".
FileType(name) ==
    LET ext == SplitextExt(name)
    IN IF ext # <<>> THEN Tail(ext) ELSE NoExtension

\* Lines 222-230: "[rel]", the file's text and "[END rel]\n", joined by "\n".
ContentBlock(rel, content) ==
    Join(NL, << <<"[">> \o rel \o <<"]">>,
                content,
                <<"[","E","N","D"," ">> \o rel \o <<"]">> \o NL >>)

\* Lines 233-235: the block appended to the list of its type; a type seen
\* for the first time goes last in the dict.  The dict is the sequence of
\* its (key, value) pairs in insertion order.
DictAppend(d, key, block) ==
    IF \E i \in 1..Len(d) : d[i].type = key
    THEN [i \in 1..Len(d) |->
            IF d[i].type = key
            THEN [type |-> key, contents |-> Append(d[i].contents, block)]
            ELSE d[i]]
    ELSE Append(d, [type |-> key, contents |-> <<block>>])

RECURSIVE FilesLoop(_, _, _, _, _, _, _)
\* The loop of lines 206-235 over the sorted file names of one directory,
\* from the i-th on; acc holds text_contents_by_type and db_contents.
FilesLoop(fs, start_path, root, names, i, pats, acc) ==
    IF i > Len(names) THEN acc
    ELSE
      LET filename == names[i]
          file_path == PathJoin(root, filename)
          relative_path == Relpath(file_path, start_path)
          next ==
            IF is_excluded(file_path, pats.exclude) THEN acc
            ELSE IF EndsWith(filename, <<".","d","b">>)
                    \/ EndsWith(filename, <<".","d","u","c","k","d","b">>)
                 THEN [acc EXCEPT !.db =
                          Append(@, process_database_file(
                                        file_path, fs[file_path].db,
                                        pats.exclude_table).text)]
            ELSE IF is_binary(fs, file_path) THEN acc
            ELSE [acc EXCEPT !.text =
                     DictAppend(@, FileType(filename),
                                ContentBlock(relative_path, fs[file_path].content))]
      IN FilesLoop(fs, start_path, root, names, i + 1, pats, next)

\* A plausible slip: the walk descends into every directory.
WalkDirs_Unpruned(fs, root, patterns) ==
    Sorted({d \in Listdir(fs, root) : IsDir(fs, PathJoin(root, d))})

\* Line 204: the directories os.walk will descend into, the excluded ones
\* pruned.  os.walk lists them in the file system's order; a directory of
\* the model holds at most one directory.
WalkDirs(fs, root, patterns) ==
    Sorted({d \in Listdir(fs, root) :
               /\ IsDir(fs, PathJoin(root, d))
               /\ ~is_excluded(PathJoin(root, d), patterns)})

RECURSIVE Walk(_, _, _, _, _)
RECURSIVE WalkInto(_, _, _, _, _, _, _)

\* os.walk(start_path, topdown=True) from root: the files of root, then
\* each remaining directory in turn.
Walk(fs, start_path, root, pats, acc) ==
    LET files == Sorted({f \in Listdir(fs, root) : ~IsDir(fs, PathJoin(root, f))})
        after == FilesLoop(fs, start_path, root, files, 1, pats, acc)
    IN WalkInto(fs, start_path, root, WalkDirs(fs, root, pats.exclude), 1, pats, after)

WalkInto(fs, start_path, root, dirs, i, pats, acc) ==
    IF i > Len(dirs) THEN acc
    ELSE WalkInto(fs, start_path, root, dirs, i + 1, pats,
                  Walk(fs, start_path, PathJoin(root, dirs[i]), pats, acc))

\* collect_and_separate_contents(start_path, exclude_patterns,
\* exclude_table_patterns)
collect_and_separate_contents(fs, start_path, patterns, table_patterns) ==
    IF ~IsDir(fs, start_path) THEN [text |-> <<>>, db |-> <<>>]
    ELSE Walk(fs, start_path, start_path,
              [exclude |-> patterns, exclude_table |-> table_patterns],
              [text |-> <<>>, db |-> <<>>])

----------------------------------------------------------------------------
(* TokenEstimator: the module global _tokenizer and estimate_gemini_tokens *)

\* estimate_gemini_tokens' default batch_size.
DefaultBatchSize == 500000

\* The module global before line 13 has bound it.
Unbound == [kind |-> "unbound", bos |-> FALSE, vocab |-> {}]

\* A loaded tokenizer: whether encode() puts a beginning-of-sequence token
\* first, and the multi-character tokens of its vocabulary (every single
\* character is a token too).  Gemma's tokenizer is one such; which one is
\* not the repository's business, so the model draws it.
Tokenizer(bos, vocab) == [kind |-> "tokenizer", bos |-> bos, vocab |-> vocab]

\* bool(_tokenizer): a tokenizer object is true.
Truthy(tok) == tok.kind = "tokenizer"

\* The longest token of the vocabulary s starts with (one character when
\* it starts with none).
LongestPrefixLen(vocab, s) ==
    LET fits == {Len(t) : t \in {u \in vocab : StartsWith(s, u)}}
    IN IF fits = {} THEN 1 ELSE Max(fits)

RECURSIVE Pieces(_, _)
\* The number of tokens s is cut into, longest token first, left to right.
Pieces(vocab, s) ==
    IF s = <<>> THEN 0
    ELSE 1 + Pieces(vocab, SubSeq(s, LongestPrefixLen(vocab, s) + 1, Len(s)))

\* len(_tokenizer.encode(batch))
EncodeLen(tok, s) == (IF tok.bos THEN 1 ELSE 0) + Pieces(tok.vocab, s)

\* A plausible slip: the range steps one past the batch, dropping a
\* character between batches.
RECURSIVE SliceBatches_Gap(_, _, _)
SliceBatches_Gap(t, i, b) ==
    IF i >= Len(t) THEN <<>>
    ELSE <<SubSeq(t, i + 1, IF i + b < Len(t) THEN i + b ELSE Len(t))>>
         \o SliceBatches_Gap(t, i + b + 1, b)

RECURSIVE SliceBatches(_, _, _)
\* [text[i:i + batch_size] for i in range(i, len(text), batch_size)]
SliceBatches(t, i, b) ==
    IF i >= Len(t) THEN <<>>
    ELSE <<SubSeq(t, i + 1, IF i + b < Len(t) THEN i + b ELSE Len(t))>>
         \o SliceBatches(t, i + b, b)

RECURSIVE SumEncode(_, _)
\* The loop of lines 31-34: the non-empty batches' token counts, summed.
SumEncode(tok, bs) ==
    IF bs = <<>> THEN 0
    ELSE (IF Head(bs) # <<>> THEN EncodeLen(tok, Head(bs)) ELSE 0)
         + SumEncode(tok, Tail(bs))

\* estimate_gemini_tokens(text, batch_size) under the module global tok.
estimate_gemini_tokens(tok, t, b) ==
    IF t = <<>> THEN 0
    ELSE IF Truthy(tok) THEN SumEncode(tok, SliceBatches(t, 0, b))
    ELSE Len(t) \div 4

----------------------------------------------------------------------------
(* The variables of each part, while another part is under study         *)

\* The variables of the row formatter, at rest.
RowIdle == columns_info = <<>> /\ row = <<>> /\ formatted = <<>>

\* The variables of the database serializer, at rest.
DbIdle ==
    /\ db_path = <<>>
    /\ exclude_table_patterns = <<>>
    /\ db = [fail |-> "none", tables |-> <<>>]
    /\ db_text = <<>>
    /\ conn = "none"
    /\ closes = 0

\* The variables of main, at rest.
MainIdle ==
    /\ disk = <<>>
    /\ root_dir = <<>>
    /\ exclude = <<>>
    /\ output_file = <<>>
    /\ tree_lines = <<>>
    /\ text_contents_by_type = <<>>
    /\ db_contents = <<>>
    /\ token_entries = <<>>
    /\ written = <<>>

\* The variables of the batch drivers, at rest.
BatchIdle ==
    /\ script = "none"
    /\ examples_dir = <<>>
    /\ entry_index = 0
    /\ results = <<>>
    /\ file_type_results = <<>>
    /\ all_file_types = {}
    /\ stdout = <<>>
    /\ tokens_summary = <<>>
    /\ tokens_by_filetype = <<>>

\* The variables of the token estimator, at rest.
TokIdle ==
    /\ tokenizer_available = TRUE
    /\ _tokenizer = Unbound
    /\ text = <<>>
    /\ batch_size = DefaultBatchSize
    /\ batches = <<>>
    /\ total_tokens = 0

----------------------------------------------------------------------------
(* Inputs of the exclusion specification                                   *)

\* At most this many patterns in a pattern list.
MaxPatterns == 2

\* The patterns pattern lists are drawn from.
Patterns ==
    { <<"*",".","t","x","t">>,      \* *.txt
      <<"d">>,                      \* d
      <<"r","/","d","/","*">>,      \* r/d/*
      <<"?">>,                      \* ?
      <<"a">>,                      \* a
      <<"*","a","*">> }             \* *a*

PatternLists == SeqsUpTo(Patterns, MaxPatterns)

\* The paths is_excluded is applied to.
ExclPaths ==
    { <<"r","/","a",".","t","x","t">>,      \* r/a.txt
      <<"r","/","a",".","T","X","T">>,      \* r/a.TXT
      <<"r","/","d">>,                      \* r/d
      <<"r","/","d","/","k">>,              \* r/d/k
      <<"r","/","a","b">>,                  \* r/ab
      <<"r","/","a">>,                      \* r/a
      <<"d">>,                              \* d
      <<"x","y">>,                          \* xy
      <<>> }

InitExcl ==
    /\ path \in ExclPaths
    /\ exclude_patterns \in PatternLists
    /\ excluded = FALSE
    /\ pc = "call"
    /\ RowIdle
    /\ TokIdle
    /\ DbIdle
    /\ MainIdle
    /\ BatchIdle

\* One call of is_excluded on the drawn inputs.
CallIsExcluded ==
    /\ pc = "call"
    /\ excluded' = is_excluded(path, exclude_patterns)
    /\ pc' = "done"
    /\ UNCHANGED <<batchVars, path, exclude_patterns, rowVars, tokVars, dbVars, mainVars>>

NextExcl == CallIsExcluded

SpecExcl == InitExcl /\ [][NextExcl]_vars

\* C6: is_excluded is true iff some pattern of the list glob-matches the
\* whole path string or its final component, case-sensitively and anchored
\* to the whole string; an empty list excludes nothing.  The hand-built
\* rows pin the matcher: a pattern is no substring test and no
\* case-insensitive test.
C6_IsExcludedIff ==
    pc = "done" =>
        /\ excluded =
             (\E i \in 1..Len(exclude_patterns) :
                 \/ Fnmatch(path, exclude_patterns[i])
                 \/ Fnmatch(Basename(path), exclude_patterns[i]))
        /\ (exclude_patterns = <<>> => excluded = FALSE)
        /\ (path = <<"r","/","a",".","T","X","T">>
              /\ exclude_patterns = << <<"*",".","t","x","t">> >>
              => excluded = FALSE)
        /\ (path = <<"r","/","a","b">> /\ exclude_patterns = << <<"a">> >>
              => excluded = FALSE)
        /\ (path = <<"r","/","a">> /\ exclude_patterns = << <<"a">> >>
              => excluded = TRUE)
        /\ (path = <<"r","/","d","/","k">>
              /\ exclude_patterns = << <<"r","/","d","/","*">> >>
              => excluded = TRUE)

\* A path matched through its basename only, by the second pattern.
C6_Witness ==
    /\ pc = "done"
    /\ excluded = TRUE
    /\ Len(exclude_patterns) = 2
    /\ ~Fnmatch(path, exclude_patterns[1])
    /\ ~Fnmatch(Basename(path), exclude_patterns[1])
    /\ ~Fnmatch(path, exclude_patterns[2])
    /\ Fnmatch(Basename(path), exclude_patterns[2])

----------------------------------------------------------------------------
(* Inputs of the row specification                                         *)

\* At most this many columns in a table.
MaxCols == 2

\* The column names tables are built from.
ColumnNames == { <<"i","d">>, <<"n","a","m","e">>, <<"K">> }

\* The values a row cell can hold.
CellValues ==
    { None, IntVal(1), IntVal(20), StrVal(<<"A","l","i","c","e">>),
      ListVal(<<IntVal(1), None>>) }

\* PRAGMA table_info of a table of n columns: cid counts from 0, the names
\* are distinct, any column may carry the pk flag.
TableInfos(n) ==
    UNION { { info \in [1..k -> [cid : 0..(k - 1), name : ColumnNames,
                                 type : {<<"V","C">>}, pk : BOOLEAN]] :
                /\ \A i \in 1..k : info[i].cid = i - 1
                /\ \A i, j \in 1..k : i # j => info[i].name # info[j].name }
            : k \in 0..n }

InitRow ==
    /\ pc = "call"
    /\ columns_info \in TableInfos(MaxCols)
    \* SELECT * yields rows as wide as the table
    /\ row \in [1..Len(columns_info) -> CellValues]
    /\ formatted = <<>>
    /\ path = <<>> /\ exclude_patterns = <<>> /\ excluded = FALSE
    /\ TokIdle
    /\ DbIdle
    /\ MainIdle
    /\ BatchIdle

\* One row rendered as process_database_file renders it (lines 179-186).
CallFormatDbRow ==
    /\ pc = "call"
    /\ LET cols == get_db_columns_info(columns_info)
           pk == get_db_primary_key_info(columns_info)
       IN formatted' = format_db_row(row, cols.names, pk.pk_name, pk.pk_index)
    /\ pc' = "done"
    /\ UNCHANGED <<batchVars, columns_info, row, exclVars, tokVars, dbVars, mainVars>>

NextRow == CallFormatDbRow

SpecRow == InitRow /\ [][NextRow]_vars

\* The anchor of the table of the row specification.
RowAnchor ==
    IF \E i \in 1..Len(columns_info) : columns_info[i].pk
    THEN LET i == CHOOSE i \in 1..Len(columns_info) :
                     /\ columns_info[i].pk
                     /\ \A j \in 1..(i - 1) : ~columns_info[j].pk
         IN [name |-> columns_info[i].name, at |-> i]
    ELSE [name |-> <<"I","D">>, at |-> 1]

\* How a cell reads in a rendered row.
CellText(v) ==
    CASE v = None -> <<>>
      [] v = IntVal(1) -> <<"1">>
      [] v = IntVal(20) -> <<"2","0">>
      [] v = StrVal(<<"A","l","i","c","e">>) -> <<"A","l","i","c","e">>
      [] v = ListVal(<<IntVal(1), None>>) -> <<"[","1",","," ","]">>

----------------------------------------------------------------------------
(* The database serializer's specification: process_database_file is       *)
(* called once on a database file                                          *)

\* At most this many tables in a database.
MaxTables == 2

TableNames == { <<"T">>, <<"u">>, <<"v">> }

\* What a table can hold: its PRAGMA table_info and its rows.
TableContents ==
    { [info |-> << [cid |-> 0, name |-> <<"i","d">>, type |-> <<"I","N","T">>,
                    pk |-> TRUE],
                   [cid |-> 1, name |-> <<"n","a","m","e">>, type |-> <<"V","C">>,
                    pk |-> FALSE] >>,
       rows |-> << <<IntVal(1), StrVal(<<"x">>)>>, <<IntVal(2), None>> >>],
      [info |-> << [cid |-> 0, name |-> <<"K">>, type |-> <<"V","C">>,
                    pk |-> FALSE] >>,
       rows |-> <<>>],
      \* a table anchored on a column named error: its rows read "ERROR: ..."
      [info |-> << [cid |-> 0, name |-> <<"e","r","r","o","r">>,
                    type |-> <<"I","N","T">>, pk |-> TRUE] >>,
       rows |-> << <<IntVal(1)>> >>] }

\* The query on a table that raises (a failing get_db_primary_key_info
\* repeats the PRAGMA of get_db_columns_info and leaves what a failing
\* SELECT leaves).
TableFails == {"none", "columns", "select"}

\* The tables of a database: distinct names, in enumeration order.
TableLists ==
    UNION { { ts \in [1..k -> [name : TableNames, content : TableContents,
                               fail : TableFails]] :
                \A i, j \in 1..k : i # j => ts[i].name # ts[j].name }
            : k \in 0..MaxTables }

\* The table as process_database_file reads it.
AsTable(t) ==
    [name |-> t.name, info |-> t.content.info, rows |-> t.content.rows,
     fail |-> t.fail]

\* The table exclusion lists the serializer is called with.
TablePatternLists == { <<>>, << <<"u">> >> }

InitDb ==
    /\ pc = "call"
    /\ db_path = <<"x",".","d","b">>
    /\ exclude_table_patterns \in TablePatternLists
    /\ \E f \in {"none", "connect", "tables"}, ts \in TableLists :
          db = [fail |-> f, tables |-> [i \in 1..Len(ts) |-> AsTable(ts[i])]]
    /\ db_text = <<>>
    /\ conn = "none"
    /\ closes = 0
    /\ path = <<>> /\ exclude_patterns = <<>> /\ excluded = FALSE
    /\ RowIdle
    /\ TokIdle
    /\ MainIdle
    /\ BatchIdle

\* process_database_file(db_path, exclude_table_patterns), to its return.
CallProcessDatabaseFile ==
    /\ pc = "call"
    /\ LET r == process_database_file(db_path, db, exclude_table_patterns)
       IN /\ db_text' = r.text
          /\ conn' = r.conn
          /\ closes' = r.closes
    /\ pc' = "done"
    /\ UNCHANGED <<batchVars, db_path, exclude_table_patterns, db, exclVars, rowVars, tokVars,
                   mainVars>>

NextDb == CallProcessDatabaseFile

SpecDb == InitDb /\ [][NextDb]_vars

\* The lines of the returned text.
DbLines == SplitOn(db_text, NL)

\* The tables the loop does not skip, in enumeration order.
Included ==
    LET ix == {i \in 1..Len(db.tables) :
                  ~is_excluded(db.tables[i].name, exclude_table_patterns)}
    IN ix

\* The first included table a query on which raises (0: none does).
FirstFailing ==
    LET bad == {i \in Included : db.tables[i].fail # "none"}
    IN IF bad = {} THEN 0 ELSE CHOOSE i \in bad : \A j \in bad : i <= j

\* Whether opening, enumerating or a query on a table raised.
DbFailed == db.fail # "none" \/ FirstFailing # 0

\* The positions of a line among the lines of the returned text.
LinesEqual(l) == {k \in 1..Len(DbLines) : DbLines[k] = l}

ErrorLines == {k \in 1..Len(DbLines) : StartsWith(DbLines[k], <<"E","R","R","O","R",":">>)}

\* The lines that open or close a table region.
TableTagLines ==
    {k \in 1..Len(DbLines) :
        \/ StartsWith(DbLines[k], <<"[","T","A","B","L","E"," ">>)
        \/ StartsWith(DbLines[k], <<"[","E","N","D"," ","T","A","B","L","E"," ">>)}

\* Table i has a complete region: its opening line, later its closing line.
HasRegion(i) ==
    \E a \in LinesEqual(TableTag(db.tables[i].name)) :
        \E b \in LinesEqual(EndTableTag(db.tables[i].name)) : a < b

\* Table i left no line at all.
HasNoLine(i) ==
    /\ LinesEqual(TableTag(db.tables[i].name)) = {}
    /\ LinesEqual(EndTableTag(db.tables[i].name)) = {}

\* The text ends with the closing tag of the database.
EndsWithClosingTag == EndsWith(db_text, EndDatabaseTag(db_path) \o NL)

\* C2 as stated: after any failure the text has exactly one ERROR: line, no
\* line of a table region, and ends with the closing tag.
C2_ErrorReplacesTableRegions ==
    pc = "done" /\ DbFailed =>
        /\ Cardinality(ErrorLines) = 1
        /\ TableTagLines = {}
        /\ EndsWithClosingTag

\* The number of lines the loop writes for table i: a complete region, or
\* what a failing query leaves of it.
RegionLines(i) ==
    CASE db.tables[i].fail = "none" -> 3 + Len(db.tables[i].rows)
      [] db.tables[i].fail = "columns" -> 1
      [] OTHER -> 2

\* C2 amended: after any failure the text is the opening tag, the lines of
\* the tables read so far, exactly one line added for the failure, an
\* ERROR: line, and the closing tag it ends with.  A failed connect or
\* enumeration leaves no line of a table region; a failed query on a table
\* leaves, before the ERROR: line, the complete regions of the included
\* tables before it and the opened, never closed region of its own.
C2_OneErrorLineAfterRegions ==
    pc = "done" /\ DbFailed =>
        LET n == Len(DbLines)
            read == IF db.fail # "none" THEN {}
                    ELSE {i \in Included : i <= FirstFailing}
            Count[k \in 0..Len(db.tables)] ==
                IF k = 0 THEN 0
                ELSE Count[k - 1] + (IF k \in read THEN RegionLines(k) ELSE 0)
        IN /\ EndsWithClosingTag
           /\ n = 1 + Count[Len(db.tables)] + 3
           /\ DbLines[1] = DatabaseTag(db_path)
           /\ StartsWith(DbLines[n - 2], <<"E","R","R","O","R",":"," ">>)
           /\ DbLines[n - 1] = EndDatabaseTag(db_path)
           /\ DbLines[n] = <<>>
           /\ \A k \in TableTagLines : k < n - 2
           /\ (db.fail # "none" => TableTagLines = {})
           /\ (db.fail = "none" =>
                 /\ \A i \in Included : i < FirstFailing => HasRegion(i)
                 /\ LinesEqual(TableTag(db.tables[FirstFailing].name)) # {}
                 /\ LinesEqual(EndTableTag(db.tables[FirstFailing].name)) = {})

\* A query on the second table fails after the first table was written.
C2_Witness ==
    /\ pc = "done"
    /\ db.fail = "none"
    /\ FirstFailing = 2
    /\ 1 \in Included
    /\ HasRegion(1)
    /\ StartsWith(DbLines[Len(DbLines) - 2], <<"E","R","R","O","R",":"," ">>)

\* C3 as stated: a failing query on table T_i is a soft failure: every
\* included table enumerated after T_i (and readable itself) still gets
\* its complete region.
C3_LaterTablesSerialized ==
    pc = "done" /\ db.fail = "none" =>
        \A i \in Included :
            db.tables[i].fail # "none" =>
                \A j \in Included :
                    j > i /\ db.tables[j].fail = "none" => HasRegion(j)

\* C3 amended: a failing query on a table stops the processing of the whole
\* database, as a failing connect or enumeration does: the included tables
\* before the first failing one have their complete regions, no table
\* after it leaves any line, and without a failure every included table
\* has its region.
C3_FailureStopsDatabase ==
    pc = "done" =>
        /\ (db.fail # "none" => \A i \in 1..Len(db.tables) : HasNoLine(i))
        /\ (db.fail = "none" /\ FirstFailing # 0 =>
              /\ \A i \in Included : i < FirstFailing => HasRegion(i)
              /\ \A j \in 1..Len(db.tables) : j > FirstFailing => HasNoLine(j))
        /\ (~DbFailed => \A i \in Included : HasRegion(i))
        /\ \A i \in 1..Len(db.tables) : i \notin Included => HasNoLine(i)

\* The first table fails and an included, healthy table follows it.
C3_Witness ==
    /\ pc = "done"
    /\ db.fail = "none"
    /\ FirstFailing = 1
    /\ 2 \in Included
    /\ db.tables[2].fail = "none"
    /\ HasNoLine(2)

\* C4 as stated: when process_database_file returns, a connection that was
\* opened has been closed, exactly once, whether or not a query failed.
C4_ConnectionClosedOnReturn ==
    pc = "done" /\ db.fail # "connect" => conn = "closed" /\ closes = 1

----------------------------------------------------------------------------
(* The token estimator's specification: the module is imported, then       *)
(* estimate_gemini_tokens is called once                                   *)

\* Texts are at most this long.
MaxTextLen == 4

\* Batch sizes run from 1 to this.
MaxBatch == 3

TextChars == {"a", "b", "c"}

Texts == SeqsUpTo(TextChars, MaxTextLen)

\* The multi-character tokens a drawn tokenizer may know.
VocabTokens == { <<"a","b">>, <<"a","b","c">> }

Tokenizers == {Tokenizer(bos, vocab) : bos \in BOOLEAN, vocab \in SUBSET VocabTokens}

InitTok ==
    /\ pc = "import"
    /\ tokenizer_available \in BOOLEAN
    /\ _tokenizer = Unbound
    /\ text \in Texts
    /\ batch_size \in 1..MaxBatch
    /\ batches = <<>>
    /\ total_tokens = 0
    /\ path = <<>> /\ exclude_patterns = <<>> /\ excluded = FALSE
    /\ RowIdle
    /\ DbIdle
    /\ MainIdle
    /\ BatchIdle

\* Line 13, run when context.py is imported: from_pretrained returns a
\* tokenizer and the module goes on to define its functions ...
ImportLoadsTokenizer ==
    /\ pc = "import"
    /\ tokenizer_available
    /\ _tokenizer' \in Tokenizers
    /\ pc' = "call"
    /\ UNCHANGED <<batchVars, tokenizer_available, text, batch_size, batches, total_tokens,
                   exclVars, rowVars, dbVars, mainVars>>

\* ... or from_pretrained raises: nothing catches it, the import fails and
\* no function of the module is ever defined.
ImportRaises ==
    /\ pc = "import"
    /\ ~tokenizer_available
    /\ pc' = "import_error"
    /\ UNCHANGED <<batchVars, tokVars, exclVars, rowVars, dbVars, mainVars>>

\* estimate_gemini_tokens(text, batch_size)
CallEstimate ==
    /\ pc = "call"
    /\ batches' = IF text # <<>> /\ Truthy(_tokenizer)
                  THEN SliceBatches(text, 0, batch_size) ELSE <<>>
    /\ total_tokens' = estimate_gemini_tokens(_tokenizer, text, batch_size)
    /\ pc' = "done"
    /\ UNCHANGED <<batchVars, tokenizer_available, _tokenizer, text, batch_size,
                   exclVars, rowVars, dbVars, mainVars>>

NextTok == ImportLoadsTokenizer \/ ImportRaises \/ CallEstimate

SpecTok == InitTok /\ [][NextTok]_vars

\* ceil(n / d)
CeilDiv(n, d) == (n + d - 1) \div d

\* C7 as stated: the batched count exceeds the single-batch count
\* (batch_size = len(text) + 1) by at least 0 and at most the number of
\* batch boundaries.
C7_DiscrepancyBounded ==
    pc = "done" =>
        LET single == estimate_gemini_tokens(_tokenizer, text, Len(text) + 1)
            boundaries == IF text = <<>> THEN 0
                          ELSE CeilDiv(Len(text), batch_size) - 1
        IN /\ total_tokens - single >= 0
           /\ total_tokens - single <= boundaries

\* C7 amended: the batches are ceil(len/b) consecutive non-empty slices of
\* at most b characters whose concatenation is the text, the estimate is
\* the sum of the tokenizer's counts of the batches, and one batch holding
\* the whole text counts what the tokenizer counts for the text.
C7_BatchesPartitionText ==
    pc = "done" /\ text # <<>> =>
        /\ Len(batches) = CeilDiv(Len(text), batch_size)
        /\ \A k \in 1..Len(batches) :
              /\ batches[k] # <<>>
              /\ Len(batches[k]) <= batch_size
              /\ batches[k] = [j \in 1..Len(batches[k]) |->
                                  text[(k - 1) * batch_size + j]]
        /\ Concat(batches) = text
        /\ LET lens == [k \in 1..Len(batches) |-> EncodeLen(_tokenizer, batches[k])]
               Sum[k \in 0..Len(batches)] ==
                   IF k = 0 THEN 0 ELSE Sum[k - 1] + lens[k]
           IN total_tokens = Sum[Len(batches)]
        /\ estimate_gemini_tokens(_tokenizer, text, Len(text) + 1)
              = EncodeLen(_tokenizer, text)

\* A text cut into several batches, the last one shorter than the others.
C7_Witness ==
    /\ pc = "done"
    /\ Len(batches) >= 2
    /\ Len(batches[Len(batches)]) < batch_size
    /\ total_tokens > EncodeLen(_tokenizer, text)

\* C8 as stated: without a tokenizer the estimate is still made, and is
\* floor(len(text) / 4).
C8_FallbackWithoutTokenizer ==
    ~tokenizer_available /\ pc # "import" =>
        /\ pc # "import_error"
        /\ (pc = "done" => total_tokens = Len(text) \div 4)

----------------------------------------------------------------------------
(* main: the arguments, the file tree, the collection, the token report    *)
(* and the output file                                                     *)

\* os.path.basename(__file__)
ScriptName == <<"c","o","n","t","e","x","t",".","p","y">>

\* Line 280: the tree between its header and its footer.
FullTreeBlock(lines) ==
    <<"[","F","I","L","E"," ","T","R","E","E","]">> \o NL
    \o Join(NL, lines) \o NL
    \o <<"[","E","N","D"," ","F","I","L","E"," ","T","R","E","E","]">> \o NL \o NL

\* Lines 281-283: the types' blocks, each type joined by "\n", the types
\* one after another with nothing between them.
FullTextBlock(by_type) ==
    Concat([i \in 1..Len(by_type) |-> Join(NL, by_type[i].contents)])

\* Line 284
FullDbBlock(dbs) == Join(NL, dbs)

\* Lines 291-298: tokens_by_type, a dict in the insertion order of
\* text_contents_by_type.
TokensByType(tok, by_type) ==
    [i \in 1..Len(by_type) |->
        [type |-> by_type[i].type,
         tokens |-> estimate_gemini_tokens(tok, Join(NL, by_type[i].contents),
                                           DefaultBatchSize)]]

RECURSIVE SumTokens(_)
\* total_text_tokens, added up in the loop of lines 293-298.
SumTokens(by_type_tokens) ==
    IF by_type_tokens = <<>> THEN 0
    ELSE Head(by_type_tokens).tokens + SumTokens(Tail(by_type_tokens))

RECURSIVE SortedByTokensDesc(_)
\* sorted(tokens_by_type.items(), key=lambda x: x[1], reverse=True): the
\* sort is stable, ties keep their order.
SortedByTokensDesc(items) ==
    IF items = <<>> THEN <<>>
    ELSE LET top == CHOOSE i \in 1..Len(items) :
                       /\ \A j \in 1..Len(items) : items[j].tokens <= items[i].tokens
                       /\ \A j \in 1..(i - 1) : items[j].tokens < items[i].tokens
         IN <<items[top]>>
            \o SortedByTokensDesc(SubSeq(items, 1, top - 1)
                                  \o SubSeq(items, top + 1, Len(items)))

\* Line 322: the label of a file type in the report.
TypeName(file_type) ==
    IF file_type # NoExtension THEN <<".">> \o file_type
    ELSE <<"(","n","o","n","e",")">>

\* A row of the report.  The categories stand for the report's labels: the
\* file tree (line 318), a file type (323), all text (327), the databases
\* (330) and the grand total (333).
Entry(category, file_type, tokens) ==
    [category |-> category, file_type |-> file_type, tokens |-> tokens]

\* A plausible slip: the database estimate is left out of the total.
TotalTokens_WithoutDb(tok, lines, by_type, dbs) ==
    estimate_gemini_tokens(tok, FullTreeBlock(lines), DefaultBatchSize)
    + SumTokens(TokensByType(tok, by_type))

\* Lines 288-304: total_tokens = tokens_tree + total_text_tokens + tokens_db
TotalTokens(tok, lines, by_type, dbs) ==
    estimate_gemini_tokens(tok, FullTreeBlock(lines), DefaultBatchSize)
    + SumTokens(TokensByType(tok, by_type))
    + estimate_gemini_tokens(tok, FullDbBlock(dbs), DefaultBatchSize)

\* Lines 315-333: token_entries.
TokenEntries(tok, lines, by_type, dbs) ==
    LET tokens_tree == estimate_gemini_tokens(tok, FullTreeBlock(lines),
                                              DefaultBatchSize)
        tokens_by_type == TokensByType(tok, by_type)
        total_text_tokens == SumTokens(tokens_by_type)
        tokens_db == estimate_gemini_tokens(tok, FullDbBlock(dbs), DefaultBatchSize)
        sorted_types == SortedByTokensDesc(tokens_by_type)
    IN <<Entry("tree", <<>>, tokens_tree)>>
       \o [i \in 1..Len(sorted_types) |->
              Entry("type", TypeName(sorted_types[i].type), sorted_types[i].tokens)]
       \o (IF tokens_by_type # <<>>
           THEN <<Entry("all_text", <<>>, total_text_tokens)>> ELSE <<>>)
       \o <<Entry("db", <<>>, tokens_db)>>
       \o <<Entry("total", <<>>, TotalTokens(tok, lines, by_type, dbs))>>

\* Lines 350-355: what is written to the output file.
OutputText(lines, by_type, dbs) ==
    FullTreeBlock(lines) \o FullTextBlock(by_type) \o FullDbBlock(dbs)

----------------------------------------------------------------------------
(* The specification of main: one run of context.py on a directory         *)

\* The database in the DuckDB file of the model's directory.
SampleDb ==
    [fail |-> "none",
     tables |->
       << [name |-> <<"T">>,
           info |-> << [cid |-> 0, name |-> <<"i","d">>,
                        type |-> <<"I","N","T">>, pk |-> TRUE],
                       [cid |-> 1, name |-> <<"n","a","m","e">>,
                        type |-> <<"V","C">>, pk |-> FALSE] >>,
           rows |-> << <<IntVal(1), StrVal(<<"x">>)>> >>,
           fail |-> "none"] >>]

Dir == [kind |-> "dir", content |-> <<>>, db |-> SampleDb]
TextFile(content) == [kind |-> "file", content |-> content, db |-> SampleDb]

\* The directory scanned.
RootDir == <<"r">>

\* Everything the scanned directory may hold, by path.
Universe ==
    LET P(x) == RootDir \o <<"/">> \o x
    IN (P(<<"a",".","T","X","T">>) :> TextFile(<<"a","b">>))
    @@ (P(<<"b",".","t","x","t">>) :> TextFile(<<"a","b","c">>))
    @@ (P(<<"c">>) :> TextFile(<<"c">>))
    @@ (P(<<"z">>) :> TextFile(<<"a",NUL,"b">>))
    @@ (P(<<"d">>) :> Dir)
    @@ (P(<<"d","/",".","e">>) :> TextFile(<<"b">>))
    @@ (P(<<"d","/","n",".">>) :> TextFile(<<>>))
    @@ (P(<<"d","/","x",".","d","b">>) :> TextFile(<<NUL>>))
    @@ (P(<<"d","/","s">>) :> Dir)
    @@ (P(<<"d","/","s","/","m",".","t","x","t">>) :> TextFile(<<"a","b">>))

\* The entries every drawn directory holds.
AlwaysThere == { RootDir \o <<"/","z">>, RootDir \o <<"/","c">> }

\* The file systems: the scanned directory with any of the universe's
\* entries, each with its parent directory.
FileSystems ==
    { (RootDir :> Dir) @@ [q \in S |-> Universe[q]] :
        S \in { T \in SUBSET DOMAIN Universe :
                  /\ AlwaysThere \subseteq T
                  /\ \A q \in T : Dirname(q) = RootDir \/ Dirname(q) \in T } }

\* The patterns given with -e: two directory names, a file pattern and the
\* name of the scanned directory itself.
MainPatterns ==
    { <<"d">>, <<"s">>, <<"*",".","t","x","t">>, RootDir }

\* The tokenizers main runs under.
MainTokenizers == {Tokenizer(bos, VocabTokens) : bos \in BOOLEAN}

Init ==
    /\ pc = "args"
    /\ disk \in FileSystems
    /\ root_dir = RootDir
    /\ exclude \in SeqsUpTo(MainPatterns, MaxPatterns)
    /\ exclude_table_patterns = <<>>
    /\ output_file = <<"c","o","n","t","e","x","t",".","t","x","t">>
    /\ tree_lines = <<>>
    /\ text_contents_by_type = <<>>
    /\ db_contents = <<>>
    /\ token_entries = <<>>
    /\ written = <<>>
    \* the module was imported: line 13 has bound the tokenizer
    /\ tokenizer_available = TRUE
    /\ _tokenizer \in MainTokenizers
    /\ text = <<>> /\ batch_size = DefaultBatchSize /\ batches = <<>>
    /\ total_tokens = 0
    /\ db_path = <<>> /\ db = [fail |-> "none", tables |-> <<>>]
    /\ db_text = <<>> /\ conn = "none" /\ closes = 0
    /\ path = <<>> /\ exclude_patterns = <<>> /\ excluded = FALSE
    /\ RowIdle
    /\ BatchIdle

\* Lines 252-258: the script's name and the output file join the patterns.
MainParseArgs ==
    /\ pc = "args"
    /\ exclude' = exclude \o <<ScriptName, output_file>>
    /\ pc' = "tree"
    /\ UNCHANGED <<batchVars, disk, root_dir, output_file, tree_lines, text_contents_by_type,
                   db_contents, token_entries, written,
                   exclVars, rowVars, tokVars, dbVars>>

\* Lines 264-268
MainFileTree ==
    /\ pc = "tree"
    /\ tree_lines' = generate_file_tree(disk, root_dir, exclude, <<>>)
    /\ pc' = "collect"
    /\ UNCHANGED <<batchVars, disk, root_dir, exclude, output_file, text_contents_by_type,
                   db_contents, token_entries, written,
                   exclVars, rowVars, tokVars, dbVars>>

\* Lines 270-274
MainCollect ==
    /\ pc = "collect"
    /\ LET r == collect_and_separate_contents(disk, root_dir, exclude,
                                              exclude_table_patterns)
       IN /\ text_contents_by_type' = r.text
          /\ db_contents' = r.db
    /\ pc' = "count"
    /\ UNCHANGED <<batchVars, disk, root_dir, exclude, output_file, tree_lines,
                   token_entries, written, exclVars, rowVars, tokVars, dbVars>>

\* Lines 276-345
MainCountTokens ==
    /\ pc = "count"
    /\ token_entries' = TokenEntries(_tokenizer, tree_lines,
                                     text_contents_by_type, db_contents)
    /\ pc' = "write"
    /\ UNCHANGED <<batchVars, disk, root_dir, exclude, output_file, tree_lines,
                   text_contents_by_type, db_contents, written,
                   exclVars, rowVars, tokVars, dbVars>>

\* Lines 347-359: the output file is written, or an IOError is reported.
MainWrite ==
    /\ pc = "write"
    /\ \/ written' = OutputText(tree_lines, text_contents_by_type, db_contents)
       \/ written' = <<>>
    /\ pc' = "done"
    /\ UNCHANGED <<batchVars, disk, root_dir, exclude, output_file, tree_lines,
                   text_contents_by_type, db_contents, token_entries,
                   exclVars, rowVars, tokVars, dbVars>>

Next ==
    \/ MainParseArgs
    \/ MainFileTree
    \/ MainCollect
    \/ MainCountTokens
    \/ MainWrite

Spec == Init /\ [][Next]_vars

\* main has collected: the tree and the two results are there.
Collected == pc \in {"count", "write", "done"}

\* The directories below the scanned one (the walks test the entries they
\* list, never their start path).
SubDirs == {q \in DOMAIN disk : q # root_dir /\ disk[q].kind = "dir"}

\* The entries below directory D, at any depth.
Below(D) == {q \in DOMAIN disk : StartsWith(q, D \o <<"/">>)}

\* Some pattern matches the path or its basename.
Matched(q) ==
    \E i \in 1..Len(exclude) :
        Fnmatch(q, exclude[i]) \/ Fnmatch(Basename(q), exclude[i])

\* The entry is a line of the tree (the names of the universe are distinct).
InTree(q) ==
    \E i \in 1..Len(tree_lines) :
        EndsWith(tree_lines[i], <<"-","-"," ">> \o Basename(q))

\* The blocks of bucket i that are the file's.
BlocksOf(q, i) ==
    {j \in 1..Len(text_contents_by_type[i].contents) :
        StartsWith(text_contents_by_type[i].contents[j],
                   <<"[">> \o Relpath(q, root_dir) \o <<"]">> \o NL)}

HasTextBlock(q) == \E i \in 1..Len(text_contents_by_type) : BlocksOf(q, i) # {}

HasDbBlock(q) ==
    \E i \in 1..Len(db_contents) : StartsWith(db_contents[i], DatabaseTag(q) \o NL)

\* C1: when a directory D below the scanned one is excluded, no entry below
\* D is a line of the tree, and none contributes a text block or a database
\* block, whether or not a pattern matches the entry itself.
C1_ExclusionTransitive ==
    Collected =>
        \A D \in SubDirs :
            Matched(D) =>
                \A q \in Below(D) :
                    ~InTree(q) /\ ~HasTextBlock(q) /\ ~HasDbBlock(q)

\* An excluded directory holding a text file and a database no pattern
\* matches, beside entries that are listed and collected.
C1_Witness ==
    /\ pc = "done"
    /\ \E D \in SubDirs :
          /\ Matched(D)
          /\ \E q \in Below(D) :
                /\ disk[q].kind = "file" /\ ~Matched(q) /\ ~is_binary(disk, q)
                /\ ~HasTextBlock(q)
          /\ \E q \in Below(D) :
                EndsWith(q, <<".","d","b">>) /\ ~Matched(q) /\ ~HasDbBlock(q)
    /\ Len(tree_lines) >= 2
    /\ text_contents_by_type # <<>>

\* The text files the collection includes: not excluded, below no excluded
\* directory, no database file, not binary.
IncludedText ==
    {q \in DOMAIN disk :
        /\ disk[q].kind = "file"
        /\ ~Matched(q)
        /\ \A D \in SubDirs : q \in Below(D) => ~Matched(D)
        /\ ~EndsWith(q, <<".","d","b">>)
        /\ ~EndsWith(q, <<".","d","u","c","k","d","b">>)
        /\ \A i \in 1..Len(disk[q].content) : disk[q].content[i] # NUL}

\* The bucket a file of the universe belongs to, by its name.
ExpectedType(name) ==
    CASE name = <<"a",".","T","X","T">> -> <<"T","X","T">>
      [] name = <<"b",".","t","x","t">> -> <<"t","x","t">>
      [] name = <<"m",".","t","x","t">> -> <<"t","x","t">>
      [] name = <<"c">> -> NoExtension
      [] name = <<".","e">> -> NoExtension
      [] name = <<"n",".">> -> <<>>
      [] OTHER -> <<"?">>

\* The file's block is in the bucket of this key, and in no other.
InBucket(q, key) ==
    \A i \in 1..Len(text_contents_by_type) :
        Cardinality(BlocksOf(q, i)) =
            (IF text_contents_by_type[i].type = key THEN 1 ELSE 0)

\* The number of "/" in a path.
Depth(q) == Cardinality(Positions(q, "/"))

\* The walk reaches q1 before q2.  The directories of the universe form a
\* chain, so a file comes before every file further down, and after the
\* files of its own directory that sort before it.
WalkBefore(q1, q2) ==
    \/ Depth(q1) < Depth(q2)
    \/ Dirname(q1) = Dirname(q2) /\ StrLess(Basename(q1), Basename(q2))

\* C10 as stated: every included text file's block is in the bucket keyed
\* by its lower-cased suffix without the dot (no_extension without one), so
\* a.TXT and b.txt share a bucket.
C10_LowerCasedBuckets ==
    Collected =>
        \A q \in IncludedText : InBucket(q, Lower(ExpectedType(Basename(q))))

\* C10 amended: every included text file's block is, once, in the bucket
\* keyed by the name's extension after its last dot with its letter case
\* kept (no_extension for a name without a dot or with leading dots only,
\* the empty key for a name ending in a dot), so a.TXT and b.txt land in
\* the buckets TXT and txt; the buckets hold nothing else, their keys are
\* distinct, and the blocks of a bucket are in the order of the walk.
C10_CasePreservingBuckets ==
    Collected =>
        /\ \A q \in IncludedText : InBucket(q, ExpectedType(Basename(q)))
        /\ \A i \in 1..Len(text_contents_by_type) :
              /\ text_contents_by_type[i].contents # <<>>
              /\ \A j \in 1..Len(text_contents_by_type[i].contents) :
                    \E q \in IncludedText : j \in BlocksOf(q, i)
              /\ \A k \in 1..Len(text_contents_by_type) :
                    k # i => text_contents_by_type[k].type
                             # text_contents_by_type[i].type
              /\ \A q1, q2 \in IncludedText :
                    \A j1 \in BlocksOf(q1, i), j2 \in BlocksOf(q2, i) :
                        WalkBefore(q1, q2) => j1 < j2

\* a.TXT and b.txt are both collected, into two buckets, and the bucket txt
\* holds b.txt's block before m.txt's.
C10_Witness ==
    /\ pc = "done"
    /\ \E i, k \in 1..Len(text_contents_by_type) :
          /\ i # k
          /\ BlocksOf(RootDir \o <<"/","a",".","T","X","T">>, i) = {1}
          /\ BlocksOf(RootDir \o <<"/","b",".","t","x","t">>, k) = {1}
          /\ BlocksOf(RootDir \o <<"/","d","/","s","/","m",".","t","x","t">>, k) = {2}

\* The report is built.
Counted == pc \in {"write", "done"}

\* The rows of a category, by position.
Rows(category) ==
    {i \in 1..Len(token_entries) : token_entries[i].category = category}

\* The tokens of the rows at the positions S, added up.
RowSum(S) ==
    LET Sum[k \in 0..Len(token_entries)] ==
            IF k = 0 THEN 0
            ELSE Sum[k - 1] + (IF k \in S THEN token_entries[k].tokens ELSE 0)
    IN Sum[Len(token_entries)]

\* What the tokenizer counts for a text in one batch (0 for no text).
Counts(t) == IF t = <<>> THEN 0 ELSE EncodeLen(_tokenizer, t)

\* C5: the report has one file-tree row, one row per bucket, one database
\* row and one grand-total row; each of the first three kinds holds the
\* tokenizer's count of its own block; the grand total is the sum of the
\* file-tree row, the per-type rows and the database row; the all-text row
\* is there when there are buckets and is the sum of the per-type rows.
C5_TotalIsSumOfParts ==
    Counted =>
        /\ Cardinality(Rows("tree")) = 1
        /\ Cardinality(Rows("db")) = 1
        /\ Cardinality(Rows("total")) = 1
        /\ Cardinality(Rows("type")) = Len(text_contents_by_type)
        /\ RowSum(Rows("total"))
              = RowSum(Rows("tree")) + RowSum(Rows("type")) + RowSum(Rows("db"))
        /\ Cardinality(Rows("all_text"))
              = (IF text_contents_by_type = <<>> THEN 0 ELSE 1)
        /\ (Rows("all_text") # {} =>
              RowSum(Rows("all_text")) = RowSum(Rows("type")))
        /\ RowSum(Rows("tree")) = Counts(FullTreeBlock(tree_lines))
        /\ RowSum(Rows("db")) = Counts(Join(NL, db_contents))
        /\ \A b \in 1..Len(text_contents_by_type) :
              \E i \in Rows("type") :
                  /\ token_entries[i].file_type
                       = TypeName(text_contents_by_type[b].type)
                  /\ token_entries[i].tokens
                       = Counts(Join(NL, text_contents_by_type[b].contents))

\* A report with several buckets and a database, counted by a tokenizer
\* that opens every encoding with a beginning-of-sequence token, so that
\* every part of the sum is positive.
C5_Witness ==
    /\ pc = "done"
    /\ _tokenizer.bos
    /\ Cardinality(Rows("type")) >= 2
    /\ RowSum(Rows("tree")) > 0
    /\ RowSum(Rows("db")) > 0
    /\ RowSum(Rows("total")) > RowSum(Rows("all_text")) + RowSum(Rows("tree"))

----------------------------------------------------------------------------
(* The token report as text: context.py main, lines 306-345, and its       *)
(* reader, tokens_by_task_report.py parse_context_output                   *)

\* The labels of the report, in Latin letters for the Russian of the source:
\* the categories of lines 318, 323, 327, 330 and 333.
LabelTree == <<"F","i","l","e"," ","t","r","e","e">>
LabelType == <<"C","o","n","t","e","x","t">>
LabelAllText == <<"*","*","A","l","l"," ","c","o","n","t","e","x","t","*","*">>
LabelDb == <<"D","u","c","k","D","B">>
LabelTotal == <<"*","*","T","O","T","A","L","*","*">>

CategoryLabel(category) ==
    CASE category = "tree" -> LabelTree
      [] category = "type" -> LabelType
      [] category = "all_text" -> LabelAllText
      [] category = "db" -> LabelDb
      [] category = "total" -> LabelTotal

\* Lines 310-311: the head of the table and the rule under it.
ReportHeader == <<"|"," ","C","a","t","e","g","o","r","y"," ","|"," ","F","i","l","e"," ","t","y","p","e"," ","|"," ","T","o","k","e","n","s"," ","|">>
ReportRule == <<"|","-","-","-","|","-","-","-","|","-","-","-","|">>

\* Three digits, zeros kept.
Pad3(n) ==
    <<Digits[(n \div 100) + 1], Digits[((n \div 10) % 10) + 1], Digits[(n % 10) + 1]>>

RECURSIVE FormatThousands(_)
\* f"{n:,}" of a natural number: its digits in groups of three.
FormatThousands(n) ==
    IF n < 1000 THEN IntToStr(n)
    ELSE FormatThousands(n \div 1000) \o <<",">> \o Pad3(n % 1000)

\* Lines 336-340: one row of the table.
ReportRow(entry) ==
    IF entry.file_type # <<>>
    THEN <<"|"," ">> \o CategoryLabel(entry.category) \o <<" ","|"," ">>
         \o entry.file_type \o <<" ","|"," ">>
         \o FormatThousands(entry.tokens) \o <<" ","|">> \o NL
    ELSE <<"|"," ">> \o CategoryLabel(entry.category) \o <<" ","|"," ","|"," ">>
         \o FormatThousands(entry.tokens) \o <<" ","|">> \o NL

\* Lines 307-342: tokens_report.
TokensReport(entries) ==
    NL \o <<"#"," ","T","o","k","e","n","s">> \o NL \o NL
    \o ReportHeader \o NL \o ReportRule \o NL
    \o Concat([i \in 1..Len(entries) |-> ReportRow(entries[i])])
    \o NL \o <<"-","-","-">> \o NL

\* What main prints: the progress lines before the report (lines 260-301),
\* the report (line 345) and the lines about the output file (348-357).
MainStdout(entries) ==
    <<"1","."," ","t","r","e","e">> \o NL \o <<"2","."," ","c","o","l","l","e","c","t">> \o NL \o <<"3","."," ","c","o","u","n","t">> \o NL
    \o TokensReport(entries) \o NL
    \o <<"4","."," ","w","r","i","t","e">> \o NL \o <<"D","o","n","e">> \o NL

\* White space for str.strip().
WhiteSpace == {" ", "\n", "\t"}

RECURSIVE Strip(_)
\* s.strip()
Strip(s) ==
    IF s = <<>> THEN s
    ELSE IF Head(s) \in WhiteSpace THEN Strip(Tail(s))
    ELSE IF s[Len(s)] \in WhiteSpace THEN Strip(SubSeq(s, 1, Len(s) - 1))
    ELSE s

\* s.replace(sub, "")
Remove(s, sub) == Concat(SplitOn(s, sub))

\* The value of a decimal digit.
DigitValue(c) == (CHOOSE i \in 1..Len(Digits) : Digits[i] = c) - 1

RECURSIVE DigitsValue(_)
DigitsValue(s) ==
    IF s = <<>> THEN 0
    ELSE 10 * DigitsValue(SubSeq(s, 1, Len(s) - 1)) + DigitValue(s[Len(s)])

\* int(s) of a text without sign, spaces or underscores: ValueError unless
\* it is one or more digits.
ParseInt(s) ==
    IF s # <<>> /\ \A i \in 1..Len(s) : \E d \in 1..Len(Digits) : Digits[d] = s[i]
    THEN [raised |-> FALSE, value |-> DigitsValue(s)]
    ELSE [raised |-> TRUE, value |-> 0]

\* d[key] = value on a dict kept as the list of its items in insertion order.
DictSet(d, key, value) ==
    IF \E i \in 1..Len(d) : d[i].key = key
    THEN [i \in 1..Len(d) |->
             IF d[i].key = key THEN [key |-> key, value |-> value] ELSE d[i]]
    ELSE Append(d, [key |-> key, value |-> value])

\* d.get(key, default)
DictGet(d, key, default) ==
    IF \E i \in 1..Len(d) : d[i].key = key
    THEN d[CHOOSE i \in 1..Len(d) : d[i].key = key].value
    ELSE default

\* Lines 50-53 and line 36: nothing counted.
NoTokens ==
    [total_tokens |-> 0, business_context_tokens |-> 0, db_tokens |-> 0,
     file_type_tokens |-> <<>>]

\* Lines 68-86: what one line of the table adds to the counts.
ParseTableLine(line, acc) ==
    LET cells == SplitOn(line, <<"|">>)
        parts == [i \in 1..(Len(cells) - 2) |-> Strip(cells[i + 1])]
    IN IF Len(parts) < 3 THEN acc
       ELSE LET category == parts[1]
                file_type == parts[2]
                tokens == ParseInt(Remove(Remove(parts[3], <<",">>), <<"*","*">>))
            IN IF tokens.raised THEN acc
               ELSE IF category = LabelTotal
                    THEN [acc EXCEPT !.total_tokens = tokens.value]
               ELSE IF category = LabelAllText
                    THEN [acc EXCEPT !.business_context_tokens = tokens.value]
               ELSE IF category = LabelType
                    THEN [acc EXCEPT !.file_type_tokens =
                                        DictSet(@, file_type, tokens.value)]
               ELSE IF category = LabelDb
                    THEN [acc EXCEPT !.db_tokens = tokens.value]
               ELSE acc

RECURSIVE ParseLines(_, _, _, _)
\* Lines 59-86: the loop over the lines of the output.
ParseLines(lines, i, in_table, acc) ==
    IF i > Len(lines) THEN acc
    ELSE LET line == Strip(lines[i])
         IN IF StartsWith(line, <<"|"," ","C","a","t","e","g","o","r","y"," ","|">>)
            THEN ParseLines(lines, i + 1, TRUE, acc)
            ELSE IF StartsWith(line, <<"-","-","-">>) /\ in_table
            THEN acc
            ELSE IF in_table /\ StartsWith(line, <<"|">>)
            THEN ParseLines(lines, i + 1, in_table, ParseTableLine(line, acc))
            ELSE ParseLines(lines, i + 1, in_table, acc)

\* parse_context_output(output)
parse_context_output(output) == ParseLines(SplitOn(output, NL), 1, FALSE, NoTokens)

----------------------------------------------------------------------------
(* The batch drivers: process_examples.py main and                         *)
(* tokens_by_task_report.py main, run_context_py_and_parse_results         *)

\* The two scripts.
ProcessExamples == "process_examples"
TokensByTaskReport == "tokens_by_task_report"

\* The failure value of lines 55 (process_examples) and 123
\* (tokens_by_task_report), in Latin letters for the Russian of the source.
Sentinel == StrVal(<<"E","R","R","O","R">>)

\* A DuckDB file without tables.
EmptyDb == [fail |-> "none", tables |-> <<>>]

\* A database file: DuckDB's format has zero bytes in its first block.
DbFile(database) == [kind |-> "file", content |-> <<NUL>>, db |-> database]

\* What a folder of the examples holds, by a name for the content.
FolderDisk(full_path, content) ==
    LET P(x) == full_path \o <<"/">> \o x
    IN CASE content = "empty" -> (full_path :> Dir)
         [] content = "text" ->
              (full_path :> Dir)
              @@ (P(<<"a",".","T","X","T">>) :> TextFile(<<"a","b">>))
              @@ (P(<<"c">>) :> TextFile(<<"c">>))
         [] content = "mixed" ->
              (full_path :> Dir)
              @@ (P(<<"b",".","t","x","t">>) :> TextFile(<<"a","b","c">>))
              @@ (P(<<"x",".","d","b">>) :> DbFile(EmptyDb))

\* process_examples.py lines 20-21
common_exclude_patterns == <<>>
common_exclude_table_patterns == <<>>

\* process_examples.py lines 36 and 42-49: the total of one folder, from
\* the tree lines and the two results of collect_and_separate_contents.
\* "\n".join(text_contents) iterates the dict it is given, which yields
\* its keys.
FolderTotal(tok, lines, text_contents, dbs) ==
    LET full_tree_block == FullTreeBlock(lines)
        full_text_block ==
            Join(NL, [i \in 1..Len(text_contents) |-> text_contents[i].type])
        full_db_block == Join(NL, dbs)
        tokens_tree == estimate_gemini_tokens(tok, full_tree_block, DefaultBatchSize)
        tokens_text == estimate_gemini_tokens(tok, full_text_block, DefaultBatchSize)
        tokens_db == estimate_gemini_tokens(tok, full_db_block, DefaultBatchSize)
    IN tokens_tree + tokens_text + tokens_db

\* tokens_by_task_report.py lines 19-29: the patterns context.py runs with,
\* after it has added its own name and the output file (context.py lines
\* 256 and 258).
ContextPyExclude ==
    common_exclude_patterns \o <<ScriptName, <<"c","o","n","t","e","x","t",".","t","x","t">>>>

RECURSIVE SortedByFolder(_)
\* sorted(results, key=lambda x: x[0])
SortedByFolder(rs) ==
    IF rs = <<>> THEN <<>>
    ELSE LET first == CHOOSE i \in 1..Len(rs) :
                         /\ \A j \in 1..Len(rs) : ~StrLess(rs[j].folder, rs[i].folder)
                         /\ \A j \in 1..(i - 1) : StrLess(rs[i].folder, rs[j].folder)
         IN <<rs[first]>>
            \o SortedByFolder(SubSeq(rs, 1, first - 1) \o SubSeq(rs, first + 1, Len(rs)))

\* format(value, ","): digits in groups of three for an int, ValueError
\* ("Cannot specify ',' with 's'") for a str.
FormatComma(value) ==
    IF value.class = "int"
    THEN [raised |-> FALSE, text |-> FormatThousands(value.v)]
    ELSE [raised |-> TRUE, text |-> <<>>]

\* process_examples.py lines 58-60: the lines printed before the rows.
ExamplesReportHead ==
    << <<>>, <<"#","#","#"," ","T","o","k","e","n","s">>, <<"|"," ","F","o","l","d","e","r"," ","|"," ","T","o","k","e","n","s"," ","|">>, <<"|","-","-","-","|","-","-","-","|">> >>

RECURSIVE PrintRows(_, _, _)
\* process_examples.py lines 61-62: the rows printed one by one; the
\* f-string of a row raises when its value cannot be formatted, and the
\* exception ends main.
PrintRows(rs, i, out) ==
    IF i > Len(rs) THEN [raised |-> FALSE, lines |-> out]
    ELSE LET tokens == FormatComma(rs[i].total)
         IN IF tokens.raised THEN [raised |-> TRUE, lines |-> out]
            ELSE PrintRows(rs, i + 1,
                     Append(out, <<"|"," ">> \o rs[i].folder \o <<" ","|"," ">>
                                 \o tokens.text \o <<" ","|">>))

\* csv.writer's text of a cell.
CsvCell(value) == IF value.class = "int" THEN IntToStr(value.v) ELSE value.v

\* tokens_by_task_report.py lines 126-133: the rows of tokens_summary.csv.
SummaryCsv(rs) ==
    LET sorted == SortedByFolder(rs)
    IN << <<<<"F","o","l","d","e","r">>, <<"T","o","t","a","l">>, <<"C","o","n","t","e","x","t">>, <<"D","a","t","a","b","a","s","e","s">>>> >>
       \o [i \in 1..Len(sorted) |->
             IF sorted[i].total = Sentinel
             THEN <<sorted[i].folder, Sentinel.v, Sentinel.v, Sentinel.v>>
             ELSE <<sorted[i].folder, CsvCell(sorted[i].total),
                    CsvCell(sorted[i].business), CsvCell(sorted[i].db)>>]

\* tokens_by_task_report.py lines 136-149: the rows of
\* tokens_by_filetype.csv.
ByFiletypeCsv(rs, by_folder, file_types) ==
    LET sorted == SortedByFolder(rs)
        types == Sorted(file_types)
    IN << <<<<"F","o","l","d","e","r">>, <<"T","o","t","a","l">>>> \o types >>
       \o [i \in 1..Len(sorted) |->
             IF sorted[i].total = Sentinel
             THEN <<sorted[i].folder, Sentinel.v>>
                  \o [k \in 1..Len(types) |-> Sentinel.v]
             ELSE <<sorted[i].folder, CsvCell(sorted[i].total)>>
                  \o [k \in 1..Len(types) |->
                        IntToStr(DictGet(DictGet(by_folder, sorted[i].folder, <<>>),
                                         types[k], 0))]]

----------------------------------------------------------------------------
(* The specification of the batch drivers: one run of either script        *)

\* At most this many entries in examples_dir.
MaxFolders == 2

\* examples_dir
ExamplesDir == <<"x">>

\* The names of the entries of examples_dir.
EntryNames == { <<"p">>, <<"q">>, <<"k">> }

\* What a folder holds.
FolderContents == {"empty", "text", "mixed"}

\* What goes wrong with a folder: nothing; the folder cannot be listed
\* (os.listdir raises PermissionError, in generate_file_tree line 69);
\* subprocess.run raises (tokens_by_task_report.py only).
FolderFaults(s) ==
    IF s = ProcessExamples THEN {"none", "unreadable"}
    ELSE {"none", "unreadable", "spawn"}

\* The entries of examples_dir under a name: a plain file, or a folder.
Entries(s, name) ==
    { [name |-> name, kind |-> "file", content |-> "empty", fault |-> "none"] }
    \cup { [name |-> name, kind |-> "dir", content |-> c, fault |-> f] :
             c \in FolderContents, f \in FolderFaults(s) }

\* The listings of examples_dir: distinct names, in any order.
Listings(s) ==
    UNION { { l \in [1..k -> UNION {Entries(s, n) : n \in EntryNames}] :
                \A i, j \in 1..k : i # j => l[i].name # l[j].name }
            : k \in 0..MaxFolders }

InitBatch ==
    /\ pc = "scan"
    /\ script \in {ProcessExamples, TokensByTaskReport}
    /\ examples_dir \in Listings(script)
    /\ entry_index = 1
    /\ results = <<>>
    /\ file_type_results = <<>>
    /\ all_file_types = {}
    /\ stdout = <<>>
    /\ tokens_summary = <<>>
    /\ tokens_by_filetype = <<>>
    \* the scripts import context.py: line 13 has bound the tokenizer
    /\ tokenizer_available = TRUE
    /\ _tokenizer \in MainTokenizers
    /\ text = <<>> /\ batch_size = DefaultBatchSize /\ batches = <<>>
    /\ total_tokens = 0
    /\ path = <<>> /\ exclude_patterns = <<>> /\ excluded = FALSE
    /\ RowIdle
    /\ DbIdle
    /\ MainIdle

\* The entries in the order of the loop: os.listdir(examples_dir) in
\* process_examples.py line 24, sorted(os.listdir(examples_dir)) in
\* tokens_by_task_report.py line 104.
LoopOrder ==
    IF script = ProcessExamples THEN examples_dir
    ELSE LET names == Sorted({examples_dir[i].name : i \in 1..Len(examples_dir)})
         IN [k \in 1..Len(names) |->
               examples_dir[CHOOSE i \in 1..Len(examples_dir) :
                               examples_dir[i].name = names[k]]]

\* The entry the loop is at, and its path (lines 25 and 105).
CurrentEntry == LoopOrder[entry_index]
FullPath(entry) == PathJoin(ExamplesDir, entry.name)

\* Lines 26 and 106: an entry that is no directory is passed over.
SkipEntry ==
    /\ pc = "scan"
    /\ entry_index <= Len(examples_dir)
    /\ CurrentEntry.kind # "dir"
    /\ entry_index' = entry_index + 1
    /\ UNCHANGED <<pc, script, examples_dir, results, file_type_results,
                   all_file_types, stdout, tokens_summary, tokens_by_filetype,
                   exclVars, rowVars, tokVars, dbVars, mainVars>>

\* The frame of the batch drivers' steps.
BatchFrame == <<script, examples_dir, exclVars, rowVars, tokVars, dbVars,
                root_dir, exclude, output_file, written>>

\* process_examples.py lines 31-36: the file tree of a folder.
ProcessExamplesTree ==
    /\ pc = "scan"
    /\ script = ProcessExamples
    /\ entry_index <= Len(examples_dir)
    /\ CurrentEntry.kind = "dir"
    /\ CurrentEntry.fault = "none"
    /\ disk' = FolderDisk(FullPath(CurrentEntry), CurrentEntry.content)
    /\ tree_lines' = generate_file_tree(disk', FullPath(CurrentEntry),
                                        common_exclude_patterns, <<>>)
    /\ pc' = "folder_collect"
    /\ UNCHANGED <<BatchFrame, entry_index, results, file_type_results,
                   all_file_types, stdout, tokens_summary, tokens_by_filetype,
                   text_contents_by_type, db_contents, token_entries>>

\* process_examples.py lines 38-41
ProcessExamplesCollect ==
    /\ pc = "folder_collect"
    /\ LET r == collect_and_separate_contents(disk, FullPath(CurrentEntry),
                    common_exclude_patterns, common_exclude_table_patterns)
       IN /\ text_contents_by_type' = r.text
          /\ db_contents' = r.db
    /\ pc' = "folder_count"
    /\ UNCHANGED <<BatchFrame, entry_index, results, file_type_results,
                   all_file_types, stdout, tokens_summary, tokens_by_filetype,
                   disk, tree_lines, token_entries>>

\* process_examples.py lines 42-51: the folder's total joins the results.
ProcessExamplesCount ==
    /\ pc = "folder_count"
    /\ results' = Append(results,
          [folder |-> CurrentEntry.name,
           total |-> IntVal(FolderTotal(_tokenizer, tree_lines,
                                        text_contents_by_type, db_contents))])
    /\ entry_index' = entry_index + 1
    /\ pc' = "scan"
    /\ UNCHANGED <<BatchFrame, file_type_results,
                   all_file_types, stdout, tokens_summary, tokens_by_filetype,
                   disk, tree_lines, text_contents_by_type, db_contents,
                   token_entries>>

\* process_examples.py lines 53-55: the try block raised, at the os.listdir
\* of generate_file_tree.
ProcessExamplesFolderFails ==
    /\ pc = "scan"
    /\ script = ProcessExamples
    /\ entry_index <= Len(examples_dir)
    /\ CurrentEntry.kind = "dir"
    /\ CurrentEntry.fault # "none"
    /\ results' = Append(results, [folder |-> CurrentEntry.name, total |-> Sentinel])
    /\ entry_index' = entry_index + 1
    /\ UNCHANGED <<pc, script, examples_dir, file_type_results,
                   all_file_types, stdout, tokens_summary, tokens_by_filetype,
                   exclVars, rowVars, tokVars, dbVars, mainVars>>

\* process_examples.py lines 57-62: the report is printed, to its end or to
\* the row whose f-string raises.
ProcessExamplesReport ==
    /\ pc = "scan"
    /\ script = ProcessExamples
    /\ entry_index > Len(examples_dir)
    /\ LET printed == PrintRows(SortedByFolder(results), 1, ExamplesReportHead)
       IN /\ stdout' = printed.lines
          /\ pc' = IF printed.raised THEN "crashed" ELSE "done"
    /\ UNCHANGED <<script, examples_dir, entry_index, results, file_type_results,
                   all_file_types, tokens_summary, tokens_by_filetype,
                   exclVars, rowVars, tokVars, dbVars, mainVars>>

\* The entry (name, total, business context, databases) of
\* tokens_by_task_report.py line 115, with the two updates of lines 116-119.
\* Nothing in the try block of lines 109-119 raises, whatever becomes of
\* the run of context.py: run_context_py_and_parse_results catches every
\* Exception itself, so the except of lines 121-123 is never entered.
TokensReportAppend(r) ==
    /\ results' = Append(results,
          [folder |-> CurrentEntry.name,
           total |-> IntVal(r.total_tokens),
           business |-> IntVal(r.business_context_tokens),
           db |-> IntVal(r.db_tokens)])
    /\ file_type_results' =
          DictSet(file_type_results, CurrentEntry.name, r.file_type_tokens)
    /\ all_file_types' =
          all_file_types
          \cup {r.file_type_tokens[i].key : i \in 1..Len(r.file_type_tokens)}
    /\ entry_index' = entry_index + 1

\* run_context_py_and_parse_results lines 33-36 and 41-43: context.py ends
\* with a return code other than 0 (it does on a folder it cannot list), or
\* subprocess.run raises; both return zeros.
TokensReportRunFails ==
    /\ pc = "scan"
    /\ script = TokensByTaskReport
    /\ entry_index <= Len(examples_dir)
    /\ CurrentEntry.kind = "dir"
    /\ CurrentEntry.fault # "none"
    /\ TokensReportAppend(NoTokens)
    /\ UNCHANGED <<pc, script, examples_dir, stdout, tokens_summary,
                   tokens_by_filetype,
                   exclVars, rowVars, tokVars, dbVars, mainVars>>

\* run_context_py_and_parse_results line 33: context.py runs on the folder;
\* its main is at the token count (context.py lines 252-274).
TokensReportRun ==
    /\ pc = "scan"
    /\ script = TokensByTaskReport
    /\ entry_index <= Len(examples_dir)
    /\ CurrentEntry.kind = "dir"
    /\ CurrentEntry.fault = "none"
    /\ disk' = FolderDisk(FullPath(CurrentEntry), CurrentEntry.content)
    /\ tree_lines' = generate_file_tree(disk', FullPath(CurrentEntry),
                                        ContextPyExclude, <<>>)
    /\ LET r == collect_and_separate_contents(disk', FullPath(CurrentEntry),
                    ContextPyExclude, common_exclude_table_patterns)
       IN /\ text_contents_by_type' = r.text
          /\ db_contents' = r.db
    /\ pc' = "context_count"
    /\ UNCHANGED <<BatchFrame, entry_index, results, file_type_results,
                   all_file_types, stdout, tokens_summary, tokens_by_filetype,
                   token_entries>>

\* context.py lines 276-333, in the run started by line 33.
TokensReportCount ==
    /\ pc = "context_count"
    /\ token_entries' = TokenEntries(_tokenizer, tree_lines,
                                     text_contents_by_type, db_contents)
    /\ pc' = "context_print"
    /\ UNCHANGED <<BatchFrame, entry_index, results, file_type_results,
                   all_file_types, stdout, tokens_summary, tokens_by_filetype,
                   disk, tree_lines, text_contents_by_type, db_contents>>

\* context.py prints its report and ends with return code 0;
\* run_context_py_and_parse_results line 39 parses what it printed.
TokensReportParse ==
    /\ pc = "context_print"
    /\ TokensReportAppend(parse_context_output(MainStdout(token_entries)))
    /\ pc' = "scan"
    /\ UNCHANGED <<BatchFrame, stdout, tokens_summary, tokens_by_filetype,
                   disk, tree_lines, text_contents_by_type, db_contents,
                   token_entries>>

\* tokens_by_task_report.py lines 125-151: the two CSV files are written.
TokensReportCsv ==
    /\ pc = "scan"
    /\ script = TokensByTaskReport
    /\ entry_index > Len(examples_dir)
    /\ tokens_summary' = SummaryCsv(results)
    /\ tokens_by_filetype' = ByFiletypeCsv(results, file_type_results, all_file_types)
    /\ pc' = "done"
    /\ UNCHANGED <<script, examples_dir, entry_index, results, file_type_results,
                   all_file_types, stdout,
                   exclVars, rowVars, tokVars, dbVars, mainVars>>

NextBatch ==
    \/ SkipEntry
    \/ ProcessExamplesTree
    \/ ProcessExamplesCollect
    \/ ProcessExamplesCount
    \/ ProcessExamplesFolderFails
    \/ ProcessExamplesReport
    \/ TokensReportRunFails
    \/ TokensReportRun
    \/ TokensReportCount
    \/ TokensReportParse
    \/ TokensReportCsv

SpecBatch == InitBatch /\ [][NextBatch]_vars

\* The script has ended, with its report or with an exception.
BatchEnded == pc \in {"done", "crashed"}

\* The folders of examples_dir, by position in the listing.
Folders == {i \in 1..Len(examples_dir) : examples_dir[i].kind = "dir"}

\* The results entries of a folder, by position.
ResultsOf(name) == {k \in 1..Len(results) : results[k].folder = name}

\* The report has the folder's row with this text for its total:
\* a line "| folder | total |" printed by process_examples.py, a row of
\* tokens_summary.csv and one of tokens_by_filetype.csv whose second cell
\* is the total in tokens_by_task_report.py.
Rendered(name, total) ==
    IF script = ProcessExamples
    THEN \E l \in 1..Len(stdout) :
            stdout[l] = <<"|"," ">> \o name \o <<" ","|"," ">> \o total \o <<" ","|">>
    ELSE /\ \E l \in 2..Len(tokens_summary) :
               tokens_summary[l][1] = name /\ tokens_summary[l][2] = total
         /\ \E l \in 2..Len(tokens_by_filetype) :
               tokens_by_filetype[l][1] = name /\ tokens_by_filetype[l][2] = total

\* C11: when a script has ended, every folder has one results entry, the
\* entry of a folder whose processing failed is the failure value, and the
\* report is emitted in full, the failure value rendered in the row of a
\* failed folder: the report does not fail over such an entry.
C11_SentinelRenderedInFullReport ==
    BatchEnded =>
        /\ pc = "done"
        /\ \A i \in Folders :
              /\ Cardinality(ResultsOf(examples_dir[i].name)) = 1
              /\ \A k \in ResultsOf(examples_dir[i].name) :
                    IF examples_dir[i].fault # "none"
                    THEN /\ results[k].total = Sentinel
                         /\ Rendered(examples_dir[i].name, Sentinel.v)
                    ELSE /\ results[k].total.class = "int"
                         /\ Rendered(examples_dir[i].name,
                                     IF script = ProcessExamples
                                     THEN FormatThousands(results[k].total.v)
                                     ELSE IntToStr(results[k].total.v))

\* process_examples.py has just counted a folder: the tree lines and the
\* two results of collect_and_separate_contents are the folder's.
FolderCounted ==
    /\ script = ProcessExamples
    /\ pc = "scan"
    /\ entry_index > 1
    /\ LoopOrder[entry_index - 1].kind = "dir"
    /\ LoopOrder[entry_index - 1].fault = "none"

\* The content blocks of all the buckets, bucket after bucket.
AllBlocks(by_type) ==
    Concat([i \in 1..Len(by_type) |-> by_type[i].contents])

\* The token counts of the text of a folder that count every included text
\* file's block: the blocks joined by "\n", the text context.py writes
\* (its full_text_block), and the sum context.py reports (its
\* total_text_tokens).
TextBlockCounts ==
    { estimate_gemini_tokens(_tokenizer, Join(NL, AllBlocks(text_contents_by_type)),
                             DefaultBatchSize),
      estimate_gemini_tokens(_tokenizer, FullTextBlock(text_contents_by_type),
                             DefaultBatchSize),
      SumTokens(TokensByType(_tokenizer, text_contents_by_type)) }

\* C12: the total process_examples.py records for a folder is the tokens of
\* the file-tree block, plus the tokens of a text made of the content
\* blocks of all the included text files, plus the tokens of the database
\* blocks.
C12_TotalCountsTextBlocks ==
    FolderCounted =>
        \E tokens_text \in TextBlockCounts :
            results[Len(results)].total.v
                = estimate_gemini_tokens(_tokenizer, FullTreeBlock(tree_lines),
                                         DefaultBatchSize)
                  + tokens_text
                  + estimate_gemini_tokens(_tokenizer, Join(NL, db_contents),
                                           DefaultBatchSize)

====
